---- MODULE Spec2Model ----
(***************************************************************************)
(* Model of ComfyUI_SceneSplitter (src/nodes.py):                          *)
(*   - TensorVideoStream: the in-memory frame source (read / seek / reset) *)
(*   - SceneStartFramesNode.get_scene_frames                               *)
(*   - SceneDetectSplitter.split_video                                     *)
(* The scene detector, the video decoder and the ffmpeg splitter are       *)
(* external collaborators; their outputs are nondeterministic choices.     *)
(***************************************************************************)
EXTENDS Integers, Sequences, FiniteSets, TLC

VARIABLES
    images,         \* TensorVideoStream._images: the frame batch (a sequence of frames)
    total_frames,   \* TensorVideoStream._total_frames
    pos,            \* TensorVideoStream._pos: index of the next frame to read
    frame_number,   \* TensorVideoStream._frame_number: index reported to the outside
    lastOp,         \* history: the last stream call, its argument and what it returned
    nOk,            \* history: successful reads so far while only read() has been called
    onlyReads,      \* history: TRUE while the stream has been driven by read() alone
    lastChange,     \* history: the last call that changed (_pos, _frame_number)
    pc,             \* position inside the node call being executed
    args,           \* arguments of the node call
    fs,             \* the filesystem: the set of paths that exist
    fs0,            \* history: the filesystem when the node call started
    scene_list,     \* scene_manager.get_scene_list()
    written,        \* history: files the external splitter wrote during the call
    calls,          \* history: how often each collaborator was invoked
    result          \* what the node call returned or raised

streamVars == <<images, total_frames, pos, frame_number>>
histVars == <<lastOp, nOk, onlyReads, lastChange>>
nodeVars == <<pc, args, fs, fs0, scene_list, written, calls, result>>
vars == <<images, total_frames, pos, frame_number, lastOp, nOk,
          onlyReads, lastChange, pc, args, fs, fs0, scene_list, written, calls, result>>

(***************************************************************************)
(* Bounds of the model.                                                    *)
(***************************************************************************)
MaxFrames == 3      \* longest frame batch
MaxSeek == 4        \* largest magnitude of an integer seek target

(***************************************************************************)
(* Frames.  A tensor frame is one pixel <<r, g, b>> of normalized floats;  *)
(* a float channel value v is held as the numerator of v = n / Den.        *)
(***************************************************************************)
Den == 2
Scale == 255
TensorFrames == { <<2, 0, 1>>, <<0, 1, 2>> }

RECURSIVE SeqsUpTo(_, _)
SeqsUpTo(S, n) ==
    IF n = 0 THEN { <<>> }
    ELSE LET shorter == SeqsUpTo(S, n - 1)
         IN  shorter \cup { Append(s, x) : s \in { t \in shorter : Len(t) = n - 1 }, x \in S }

Batches == SeqsUpTo(TensorFrames, MaxFrames)

\* (tensor_frame.cpu().numpy() * 255).astype(np.uint8): scale, then truncate
ToUint8(frame) == [c \in 1..Len(frame) |-> (frame[c] * Scale) \div Den]

\* cv2.cvtColor(frame_numpy, cv2.COLOR_RGB2BGR): reverse the channel order
RGB2BGR(frame) == [c \in 1..Len(frame) |-> frame[Len(frame) + 1 - c]]

NoFrame == <<>>

\* self._images[k]: Python indexing, zero-based, negative k counts from the end;
\* outside [-n, n) it raises IndexError
PyIndex(batch, k) ==
    LET n == Len(batch)
    IN  IF 0 <= k /\ k < n THEN [raised |-> FALSE, value |-> batch[k + 1]]
        ELSE IF -n <= k /\ k < 0 THEN [raised |-> FALSE, value |-> batch[n + k + 1]]
        ELSE [raised |-> TRUE, value |-> NoFrame]

(***************************************************************************)
(* Seek targets: an int, a float (held as the numerator of h / Den) or a   *)
(* FrameTimecode (whose frame count is never negative).  These are the     *)
(* types seek() tests for; integers of either sign are stored as they are. *)
(***************************************************************************)
IntTargets == [kind : {"int"}, v : (-MaxSeek)..MaxSeek]
FloatTargets == [kind : {"float"}, v : {-3, -1, 1, 3, 5}]
TimecodeTargets == [kind : {"timecode"}, v : 0..MaxSeek]
SeekTargets == IntTargets \cup FloatTargets \cup TimecodeTargets

\* int(x) for a float x = h / Den: truncation toward zero
IntOfFloat(h) == IF h >= 0 THEN h \div Den ELSE -((-h) \div Den)

ResolveTarget_plus1(target) ==
    IF target.kind = "float" THEN IntOfFloat(target.v) + 1 ELSE target.v + 1

\* the frame index seek() resolves its target to
ResolveTarget(target) ==
    IF target.kind = "float" THEN IntOfFloat(target.v) ELSE target.v

(***************************************************************************)
(* Paths and the filesystem.  A path is the record of its directory (a     *)
(* sequence of components, absolute when it starts with "/"), the stem of  *)
(* its file name, the number after "-Scene-" (0: no such suffix) and its   *)
(* extension.  The empty string is EmptyPath; a directory has no stem.     *)
(***************************************************************************)
Path(dir, stem, scene, ext) == [dir |-> dir, stem |-> stem, scene |-> scene, ext |-> ext]
EmptyPath == Path(<<>>, "", 0, "")
DirEntry(dir) == Path(dir, "", 0, "")

\* os.path.exists(p)
PathExists(fsys, p) == p # EmptyPath /\ p \in fsys

(***************************************************************************)
(* Results of a node call: what it returned ("ok") or the exception raised *)
(***************************************************************************)
Result(kind, list, str, count) == [kind |-> kind, list |-> list, str |-> str, count |-> count]
NoResult == Result("none", <<>>, "", 0)
Raised(exception) == Result(exception, <<>>, "", 0)

(***************************************************************************)
(* TensorVideoStream                                                       *)
(***************************************************************************)
NoTarget == [kind |-> "int", v |-> 0]

\* lastOp: the call, what it returned, the frame it returned, the target of the
\* seek (of the call itself, or for a read of the seek right before it)
Op(op, res, frame, afterSeek, target) ==
    [op |-> op, res |-> res, frame |-> frame, afterSeek |-> afterSeek, target |-> target]
NoOp == Op("init", "none", NoFrame, FALSE, NoTarget)

\* history update of a seek or a reset
Repositioned(op, target) ==
    /\ lastOp' = Op(op, "none", NoFrame, FALSE, target)
    /\ nOk' = 0
    /\ onlyReads' = FALSE
    /\ lastChange' = IF <<pos', frame_number'>> # <<pos, frame_number>> THEN op ELSE lastChange

\* TensorVideoStream.__init__(images, fps): no validation of the batch
Construct(batch) ==
    /\ images' = batch
    /\ total_frames' = Len(batch)
    /\ pos' = 0
    /\ frame_number' = 0
    /\ lastOp' = NoOp
    /\ nOk' = 0
    /\ onlyReads' = TRUE
    /\ lastChange' = "init"

AtEnd_strict(p, n) == p > n

\* the end-of-stream test of read()
AtEnd(p, n) == p >= n

ReportedIndex_next(p) == p + 1

\* the value read() stores in _frame_number before it fetches the frame
ReportedIndex(p) == p

NextPos_skip(p) == p + 2

\* the value read() stores in _pos after it fetched the frame
NextPos(p) == p + 1

\* TensorVideoStream.read()
read ==
    /\ UNCHANGED <<images, total_frames, onlyReads>>
    /\ LET afterSeek == lastOp.op = "seek"
           target == IF afterSeek THEN lastOp.target ELSE NoTarget
       IN  IF AtEnd(pos, total_frames)
           THEN /\ UNCHANGED <<pos, frame_number>>
                /\ lastOp' = Op("read", "False", NoFrame, afterSeek, target)
           ELSE LET tensor_frame == PyIndex(images, pos)
                IN  /\ frame_number' = ReportedIndex(pos)
                    /\ IF tensor_frame.raised
                       THEN /\ pos' = pos
                            /\ lastOp' = Op("read", "IndexError", NoFrame, afterSeek, target)
                       ELSE /\ pos' = NextPos(pos)
                            /\ lastOp' = Op("read", "frame",
                                            RGB2BGR(ToUint8(tensor_frame.value)),
                                            afterSeek, target)
    /\ nOk' = IF onlyReads /\ lastOp'.res = "frame" THEN nOk + 1 ELSE nOk
    /\ lastChange' = IF <<pos', frame_number'>> # <<pos, frame_number>>
                     THEN (IF lastOp'.res = "frame" THEN "read_ok" ELSE "read_fail")
                     ELSE lastChange

\* TensorVideoStream.seek(target)
seek(target) ==
    /\ UNCHANGED <<images, total_frames>>
    /\ pos' = ResolveTarget(target)
    /\ frame_number' = pos'
    /\ Repositioned("seek", target)

\* TensorVideoStream.reset()
reset ==
    /\ UNCHANGED <<images, total_frames>>
    /\ pos' = 0
    /\ frame_number' = 0
    /\ Repositioned("reset", NoTarget)

(***************************************************************************)
(* SpecStream: one TensorVideoStream driven by arbitrary read / seek /     *)
(* reset calls.  No node call is in progress.                              *)
(***************************************************************************)
NoArgs == [hasImages |-> FALSE, images |-> <<>>, video_path |-> EmptyPath,
           output_dir |-> <<>>, ffmpeg |-> FALSE]
NoCalls == [stream |-> 0, open |-> 0, detect |-> 0, makedirs |-> 0, tool |-> 0]

IdleNode ==
    /\ pc = "idle"
    /\ args = NoArgs
    /\ fs = {}
    /\ fs0 = {}
    /\ scene_list = <<>>
    /\ written = {}
    /\ calls = NoCalls
    /\ result = NoResult

InitStream ==
    /\ images \in Batches
    /\ total_frames = Len(images)
    /\ pos = 0
    /\ frame_number = 0
    /\ lastOp = NoOp
    /\ nOk = 0
    /\ onlyReads = TRUE
    /\ lastChange = "init"
    /\ IdleNode

StreamRead == read /\ UNCHANGED nodeVars
StreamSeek == (\E target \in SeekTargets : seek(target)) /\ UNCHANGED nodeVars
StreamReset == reset /\ UNCHANGED nodeVars

NextStream == StreamRead \/ StreamSeek \/ StreamReset

SpecStream == InitStream /\ [][NextStream]_vars

(***************************************************************************)
(* Scene lists.  A scene is the pair <<start, end>> of the frame numbers   *)
(* of its two FrameTimecodes.                                              *)
(***************************************************************************)
MaxStart == 2       \* largest start frame of a scene
MaxScenes == 3      \* longest scene list

Scenes == { sc \in (0..MaxStart) \X (1..(MaxStart + 1)) :
                sc[2] = sc[1] + 1 \/ sc[2] = MaxStart + 1 }

\* what an arbitrary detector may hand back: any order, any duplication
SceneLists == SeqsUpTo(Scenes, MaxScenes)

Range(list) == { list[i] : i \in 1..Len(list) }

\* sorted(S) for a set of integers
RECURSIVE Sorted(_)
Sorted(S) ==
    IF S = {} THEN <<>>
    ELSE LET least == CHOOSE x \in S : \A y \in S : x <= y
         IN  <<least>> \o Sorted(S \ {least})

\* ",".join(map(str, list))
RECURSIVE JoinComma(_)
JoinComma(list) ==
    IF list = <<>> THEN ""
    ELSE IF Len(list) = 1 THEN ToString(list[1])
    ELSE ToString(list[1]) \o "," \o JoinComma(Tail(list))

\* [scene[0].get_frames() for scene in scene_list], or [0] for an empty list
StartFrames(list) ==
    IF list = <<>> THEN <<0>> ELSE [i \in 1..Len(list) |-> list[i][1]]

InsertZero_never(start_frames) == start_frames

\* if 0 not in start_frames: start_frames.insert(0, 0)
InsertZero(start_frames) ==
    IF 0 \notin Range(start_frames) THEN <<0>> \o start_frames ELSE start_frames

\* the extraction step of get_scene_frames: sorted(list(set(start_frames)))
\* after the two steps above
ExtractStartFrames(list) == Sorted(Range(InsertZero(StartFrames(list))))

(***************************************************************************)
(* SceneStartFramesNode.get_scene_frames(threshold, images, video_path).   *)
(* threshold only reaches the external detector and is left out.           *)
(***************************************************************************)
UsablePath_nonEmpty(fsys, p) == p # EmptyPath

\* video_path and os.path.exists(video_path)
UsablePath(fsys, p) == p # EmptyPath /\ PathExists(fsys, p)

Bump(counter) == [calls EXCEPT ![counter] = @ + 1]

Raise(exception) ==
    /\ pc' = "done"
    /\ result' = Raised(exception)

\* images is not None: video_stream = TensorVideoStream(images, fps=30.0)
GsfUseImages ==
    /\ pc = "start"
    /\ args.hasImages
    /\ Construct(args.images)
    /\ calls' = Bump("stream")
    /\ pc' = "detect"
    /\ UNCHANGED <<args, fs, fs0, scene_list, written, result>>

\* elif video_path and os.path.exists(video_path): open_video(video_path),
\* which may raise
GsfOpenVideo ==
    /\ pc = "start"
    /\ ~args.hasImages
    /\ UsablePath(fs, args.video_path)
    /\ calls' = Bump("open")
    /\ \/ pc' = "detect" /\ UNCHANGED result
       \/ Raise("VideoOpenFailure")
    /\ UNCHANGED <<streamVars, histVars, args, fs, fs0, scene_list, written>>

\* else: raise ValueError
GsfInvalidInput ==
    /\ pc = "start"
    /\ ~args.hasImages
    /\ ~UsablePath(fs, args.video_path)
    /\ Raise("ValueError")
    /\ UNCHANGED <<streamVars, histVars, args, fs, fs0, scene_list, written, calls>>

\* scene_manager.detect_scenes(video_stream) is entered
GsfDetect ==
    /\ pc = "detect"
    /\ calls' = Bump("detect")
    /\ pc' = IF args.hasImages THEN "scan" ELSE "scan_file"
    /\ UNCHANGED <<streamVars, histVars, args, fs, fs0, scene_list, written, result>>

\* detect_scenes pulls one frame from the TensorVideoStream; it stops at
\* the first read() that returns False
GsfScanRead ==
    /\ pc = "scan"
    /\ read
    /\ IF lastOp'.res = "frame" THEN pc' = "scan" /\ UNCHANGED result
       ELSE IF lastOp'.res = "False" THEN pc' = "finalize" /\ UNCHANGED result
       ELSE Raise(lastOp'.res)
    /\ UNCHANGED <<args, fs, fs0, scene_list, written, calls>>

\* detect_scenes over a decoded file: the decoder is external
GsfScanFile ==
    /\ pc = "scan_file"
    /\ pc' = "finalize"
    /\ UNCHANGED <<streamVars, histVars, args, fs, fs0, scene_list, written, calls, result>>

\* the detector raises: the except clause prints and re-raises
GsfDetectFail ==
    /\ pc \in {"scan", "scan_file"}
    /\ Raise("DetectionFailure")
    /\ UNCHANGED <<streamVars, histVars, args, fs, fs0, scene_list, written, calls>>

\* scene_list = scene_manager.get_scene_list(), then the extraction and the return
GsfExtract ==
    /\ pc = "finalize"
    /\ \E list \in SceneLists :
          /\ scene_list' = list
          /\ LET start_frames == ExtractStartFrames(list)
             IN  result' = Result("ok", start_frames, JoinComma(start_frames),
                                  Len(start_frames))
    /\ pc' = "done"
    /\ UNCHANGED <<streamVars, histVars, args, fs, fs0, written, calls>>

(***************************************************************************)
(* SpecFrames: one call of get_scene_frames, on any arguments.             *)
(***************************************************************************)
VideoA == Path(<<"in">>, "a", 0, ".mp4")
VideoB == Path(<<"in">>, "b", 0, ".mkv")
VideoPaths == {EmptyPath, VideoA, VideoB}

NoStream ==
    /\ images = <<>>
    /\ total_frames = 0
    /\ pos = 0
    /\ frame_number = 0
    /\ lastOp = NoOp
    /\ nOk = 0
    /\ onlyReads = TRUE
    /\ lastChange = "init"

InitFrames ==
    /\ NoStream
    /\ pc = "start"
    /\ \E hasImages \in BOOLEAN :
          args \in [hasImages : {hasImages},
                    images : IF hasImages THEN Batches ELSE {<<>>},
                    video_path : VideoPaths,
                    output_dir : {<<>>},
                    ffmpeg : {FALSE}]
    /\ fs \in SUBSET {VideoA}
    /\ fs0 = fs
    /\ scene_list = <<>>
    /\ written = {}
    /\ calls = NoCalls
    /\ result = NoResult

NextFrames ==
    \/ GsfUseImages
    \/ GsfOpenVideo
    \/ GsfInvalidInput
    \/ GsfDetect
    \/ GsfScanRead
    \/ GsfScanFile
    \/ GsfDetectFail
    \/ GsfExtract

SpecFrames == InitFrames /\ [][NextFrames]_vars

(***************************************************************************)
(* SceneDetectSplitter.split_video(video_path, output_dir, threshold,      *)
(* show_progress).  threshold and show_progress only reach the external    *)
(* detector and splitter and are left out; args.ffmpeg is what             *)
(* is_ffmpeg_available() answers.                                          *)
(***************************************************************************)
Cwd == <<"/", "work">>

\* os.path.abspath(p)
AbsPath(p) == IF p.dir # <<>> /\ p.dir[1] = "/" THEN p ELSE [p EXCEPT !.dir = Cwd \o @]

\* os.makedirs(dir): the directory and its missing parents
MakeDirs(fsys, dir) == fsys \cup { DirEntry(SubSeq(dir, 1, n)) : n \in 1..Len(dir) }

\* sorted(glob.glob(os.path.join(output_dir, f"{video_name}-Scene-*{ext}"))), with
\* video_name and ext the stem and the extension of video_path.  The matches
\* differ in the part the * stands for only, so sorting is by that part.
GlobScenes(fsys, output_dir, video_path) ==
    LET matches == { f \in fsys : /\ f.dir = output_dir
                                  /\ f.stem = video_path.stem
                                  /\ video_path.scene = 0
                                  /\ f.scene >= 1
                                  /\ f.ext = video_path.ext }
        order == Sorted({ f.scene : f \in matches })
    IN  [i \in 1..Len(order) |-> Path(output_dir, video_path.stem, order[i], video_path.ext)]

\* what split_video_ffmpeg may leave in output_dir: the files of the first k
\* scenes (k = 0: it failed at once), named after the video, as .mp4 or with
\* the extension of the video
ToolOutputs(video_path, output_dir, list) ==
    { { Path(output_dir, video_path.stem, n, ext) : n \in 1..k } :
        k \in 0..Len(list), ext \in {".mp4", video_path.ext} }

\* the scene lists of a detector that cuts [0, MaxStart + 1) at the frames of
\* cuts; no cut at all gives the empty list
CutList(cuts) ==
    LET marks == Sorted(cuts \cup {0, MaxStart + 1})
    IN  [i \in 1..(Len(marks) - 1) |-> <<marks[i], marks[i + 1]>>]
DetectedLists == { <<>> } \cup { CutList(cuts) : cuts \in SUBSET (1..MaxStart) }

VideoMissing_never(fsys, p) == FALSE

\* if not os.path.exists(video_path)
VideoMissing(fsys, p) == ~PathExists(fsys, p)

NoScenes_never(list) == FALSE

\* if not scene_list
NoScenes(list) == list = <<>>

\* raise FileNotFoundError
SvNotFound ==
    /\ pc = "start"
    /\ VideoMissing(fs, args.video_path)
    /\ Raise("FileNotFoundError")
    /\ UNCHANGED <<streamVars, histVars, args, fs, fs0, scene_list, written, calls>>

\* raise RuntimeError: ffmpeg is not available
SvNoFfmpeg ==
    /\ pc = "start"
    /\ ~VideoMissing(fs, args.video_path)
    /\ ~args.ffmpeg
    /\ Raise("RuntimeError")
    /\ UNCHANGED <<streamVars, histVars, args, fs, fs0, scene_list, written, calls>>

\* if not os.path.exists(output_dir): os.makedirs(output_dir)
SvMakeDirs ==
    /\ pc = "start"
    /\ ~VideoMissing(fs, args.video_path)
    /\ args.ffmpeg
    /\ IF ~PathExists(fs, DirEntry(args.output_dir))
       THEN fs' = MakeDirs(fs, args.output_dir) /\ calls' = Bump("makedirs")
       ELSE UNCHANGED <<fs, calls>>
    /\ pc' = "open"
    /\ UNCHANGED <<streamVars, histVars, args, fs0, scene_list, written, result>>

\* video = open_video(video_path), which may raise
SvOpenVideo ==
    /\ pc = "open"
    /\ calls' = Bump("open")
    /\ \/ pc' = "detect" /\ UNCHANGED result
       \/ Raise("VideoOpenFailure")
    /\ UNCHANGED <<streamVars, histVars, args, fs, fs0, scene_list, written>>

\* scene_manager.detect_scenes(video); scene_list = scene_manager.get_scene_list()
SvDetect ==
    /\ pc = "detect"
    /\ calls' = Bump("detect")
    /\ \/ /\ scene_list' \in DetectedLists
          /\ pc' = "detected"
          /\ UNCHANGED result
       \/ Raise("DetectionFailure") /\ UNCHANGED scene_list
    /\ UNCHANGED <<streamVars, histVars, args, fs, fs0, written>>

\* if not scene_list: return ([video_path], video_path)
SvNoScenes ==
    /\ pc = "detected"
    /\ NoScenes(scene_list)
    /\ result' = Result("ok", <<args.video_path>>, <<args.video_path>>, 1)
    /\ pc' = "done"
    /\ UNCHANGED <<streamVars, histVars, args, fs, fs0, scene_list, written, calls>>

\* split_video_ffmpeg(...), then the glob, the sort and abspath; paths_str
\* is held as the sequence of its lines
SvSplit ==
    /\ pc = "detected"
    /\ ~NoScenes(scene_list)
    /\ calls' = Bump("tool")
    /\ written' \in ToolOutputs(args.video_path, args.output_dir, scene_list)
    /\ fs' = fs \cup written'
    /\ LET generated_files == GlobScenes(fs', args.output_dir, args.video_path)
           abs_generated_files == [i \in 1..Len(generated_files) |->
                                       AbsPath(generated_files[i])]
       IN  result' = Result("ok", abs_generated_files, abs_generated_files,
                            Len(abs_generated_files))
    /\ pc' = "done"
    /\ UNCHANGED <<streamVars, histVars, args, fs0, scene_list>>

(***************************************************************************)
(* SpecSplit: one call of split_video, on any arguments and any prior      *)
(* content of the filesystem.                                              *)
(***************************************************************************)
OutRel == <<"out">>
OutAbs == <<"/", "scenes">>
StaleA1 == Path(OutRel, "a", 1, ".mp4")
StaleA5 == Path(OutRel, "a", 5, ".mp4")

Filesystems ==
    { fsys \in SUBSET {VideoA, VideoB, DirEntry(OutRel), DirEntry(OutAbs), StaleA1, StaleA5} :
        (StaleA1 \in fsys \/ StaleA5 \in fsys) => DirEntry(OutRel) \in fsys }

InitSplit ==
    /\ NoStream
    /\ pc = "start"
    /\ args \in [hasImages : {FALSE},
                  images : {<<>>},
                  video_path : VideoPaths,
                  output_dir : {OutRel, OutAbs},
                  ffmpeg : BOOLEAN]
    /\ fs \in Filesystems
    /\ fs0 = fs
    /\ scene_list = <<>>
    /\ written = {}
    /\ calls = NoCalls
    /\ result = NoResult

NextSplit ==
    \/ SvNotFound
    \/ SvNoFfmpeg
    \/ SvMakeDirs
    \/ SvOpenVideo
    \/ SvDetect
    \/ SvNoScenes
    \/ SvSplit

SpecSplit == InitSplit /\ [][NextSplit]_vars

(***************************************************************************)
(* Properties of TensorVideoStream (checked under SpecStream)              *)
(***************************************************************************)
\* the frame handed out for the tensor frame at zero-based position k of the
\* batch; NoFrame when the batch has no position k
FrameAtPosition(k) ==
    IF k \in 0..(Len(images) - 1) THEN RGB2BGR(ToUint8(images[k + 1])) ELSE NoFrame

\* the integer frame index a seek target stands for
TargetIndex(t) ==
    IF t.kind = "float"
    THEN CHOOSE i \in (-MaxSeek)..MaxSeek :
            \/ t.v >= 0 /\ Den * i <= t.v /\ t.v < Den * (i + 1)
            \/ t.v < 0 /\ Den * i >= t.v /\ t.v > Den * (i - 1)
    ELSE t.v

\* C1: a fresh stream over N frames driven only by read(): exactly N reads
\* succeed before end-of-stream, and right after the i-th successful read
\* (zero-based) frame_number = i and the frame returned is the one at position i.
C1_ReadsInOrder ==
    onlyReads =>
        /\ nOk <= total_frames
        /\ (lastOp.op = "read" /\ lastOp.res = "frame") =>
               /\ nOk >= 1
               /\ frame_number = nOk - 1
               /\ lastOp.frame = FrameAtPosition(nOk - 1)
        /\ (lastOp.op = "read" /\ lastOp.res # "frame") =>
               /\ lastOp.res = "False"
               /\ nOk = total_frames

C1_Witness ==
    /\ onlyReads
    /\ total_frames >= 2
    /\ nOk = total_frames
    /\ lastOp.op = "read"
    /\ lastOp.res = "False"

\* C2 as stated, on a non-empty batch: seek(k) then read() with k < N (a
\* negative k included) succeeds, returns the frame originally at position k
\* and reports current index k.
C2_SeekThenRead_AnyBelowN ==
    (/\ total_frames >= 1
     /\ lastOp.op = "read"
     /\ lastOp.afterSeek
     /\ TargetIndex(lastOp.target) < total_frames) =>
        /\ lastOp.res = "frame"
        /\ lastOp.frame = FrameAtPosition(TargetIndex(lastOp.target))
        /\ frame_number = TargetIndex(lastOp.target)

\* C2 amended: seek(k) then read() with 0 <= k < N succeeds, returns the frame
\* originally at position k and reports current index k.
C2_SeekThenRead ==
    (/\ lastOp.op = "read"
     /\ lastOp.afterSeek
     /\ 0 <= TargetIndex(lastOp.target)
     /\ TargetIndex(lastOp.target) < total_frames) =>
        /\ lastOp.res = "frame"
        /\ lastOp.frame = FrameAtPosition(TargetIndex(lastOp.target))
        /\ frame_number = TargetIndex(lastOp.target)

C2_Witness ==
    /\ lastOp.op = "read"
    /\ lastOp.afterSeek
    /\ lastOp.res = "frame"
    /\ TargetIndex(lastOp.target) = 1
    /\ lastChange = "read_ok"
    /\ total_frames >= 3

\* C8: with the cursor at or beyond N, read() returns end-of-stream and leaves
\* _pos and _frame_number unchanged; seek stores its target without clamping.
C8_EndOfStreamRead ==
    [][ /\ (lastOp'.op = "read" /\ pos >= total_frames) =>
              /\ lastOp'.res = "False"
              /\ pos' = pos
              /\ frame_number' = frame_number
        /\ (lastOp'.op = "seek") => pos' = TargetIndex(lastOp'.target)
      ]_vars

C8_Witness ==
    /\ lastOp.op = "read"
    /\ lastOp.res = "False"
    /\ lastOp.afterSeek
    /\ pos > total_frames
    /\ total_frames >= 1

\* C10: _pos - _frame_number is 0 or 1, it is 1 exactly when the last call that
\* changed the state was a successful read(), and seek and reset leave the
\* two fields equal.
C10_CursorLeadsByAtMostOne ==
    /\ pos - frame_number \in {0, 1}
    /\ (pos - frame_number = 1) <=> (lastChange = "read_ok")
    /\ (lastOp.op \in {"seek", "reset"}) => pos = frame_number

C10_Witness ==
    /\ pos - frame_number = 1
    /\ lastOp.op = "read"
    /\ lastOp.res = "False"
    /\ lastChange = "read_ok"

(***************************************************************************)
(* Properties of get_scene_frames (checked under SpecFrames)               *)
(***************************************************************************)
\* C3: the extraction maps the empty scene list to [0] and any other list to
\* the set of its start frames united with {0}, in strictly ascending order
\* (so duplicate-free, with 0 first), whatever the order of the list.
C3_ExtractCanonical ==
    (pc = "done" /\ result.kind = "ok") =>
        LET out == result.list
        IN  /\ scene_list = <<>> => out = <<0>>
            /\ { out[i] : i \in 1..Len(out) } =
                   { scene_list[i][1] : i \in 1..Len(scene_list) } \cup {0}
            /\ \A i \in 1..(Len(out) - 1) : out[i] < out[i + 1]
            /\ Len(out) >= 1
            /\ out[1] = 0

C3_Witness ==
    /\ pc = "done"
    /\ result.kind = "ok"
    /\ Len(scene_list) = 3
    /\ scene_list[1][1] = 2
    /\ scene_list[2][1] = 1
    /\ scene_list[3][1] = 2
    /\ result.list = <<0, 1, 2>>

\* C4: constructing the stream over an empty batch fails with an invalid-input
\* error (ValueError), so no stream over an empty batch exists and no scan
\* is started on it.
C4_EmptyBatchRejected ==
    (args.hasImages /\ args.images = <<>> /\ pc # "start") =>
        /\ pc = "done"
        /\ result.kind = "ValueError"
        /\ calls.stream = 0
        /\ calls.detect = 0

\* C7: without images and with a video_path that is empty or does not exist,
\* the call raises ValueError before any stream is constructed or opened and
\* before detection; it returns no result.
C7_NoSourceRejected ==
    (~args.hasImages /\ (args.video_path = EmptyPath \/ args.video_path \notin fs0)) =>
        /\ pc \in {"start", "done"}
        /\ pc = "done" => result.kind = "ValueError"
        /\ calls = NoCalls
        /\ lastOp = NoOp

C7_Witness ==
    /\ ~args.hasImages
    /\ args.video_path = VideoB
    /\ VideoB \notin fs0
    /\ pc = "done"
    /\ result.kind = "ValueError"

(***************************************************************************)
(* Properties of split_video (checked under SpecSplit)                     *)
(***************************************************************************)
\* C5: with a video_path that does not exist the call raises
\* FileNotFoundError before any directory is created, any detection and any
\* call of the splitter: the filesystem is unchanged.
C5_NotFoundFirst ==
    (args.video_path = EmptyPath \/ args.video_path \notin fs0) =>
        /\ pc \in {"start", "done"}
        /\ pc = "done" => result.kind = "FileNotFoundError"
        /\ fs = fs0
        /\ calls = NoCalls

C5_Witness ==
    /\ args.video_path = VideoB
    /\ VideoB \notin fs0
    /\ DirEntry(args.output_dir) \notin fs0
    /\ args.ffmpeg
    /\ pc = "done"
    /\ result.kind = "FileNotFoundError"

\* C6: on an existing video whose detection yields the empty scene list the
\* call returns the one-element list of video_path as passed in, and the
\* splitter is never called.
C6_NoScenesNoSplit ==
    (calls.detect = 1 /\ scene_list = <<>> /\ result.kind # "DetectionFailure") =>
        /\ calls.tool = 0
        /\ written = {}
        /\ pc \in {"detected", "done"}
        /\ pc = "done" =>
              /\ result.kind = "ok"
              /\ result.list = <<args.video_path>>
              /\ result.str = <<args.video_path>>

C6_Witness ==
    /\ calls.detect = 1
    /\ scene_list = <<>>
    /\ pc = "done"
    /\ result.kind = "ok"
    /\ result.list = <<VideoA>>
    /\ StaleA1 \in fs

\* the files among S that the naming convention <stem>-Scene-<N><ext> of
\* this call selects
MatchingFiles(S) ==
    { f \in S : /\ f.dir = args.output_dir
                /\ f.stem = args.video_path.stem
                /\ f.scene >= 1
                /\ f.ext = args.video_path.ext }

\* C9: with a non-empty scene list, if the splitter wrote no matching file
\* during the call, the returned list is empty and no error is raised,
\* whatever output_dir held before.
C9_NothingWrittenNothingReturned ==
    (pc = "done" /\ calls.tool = 1 /\ MatchingFiles(written) = {}) =>
        /\ result.kind = "ok"
        /\ result.list = <<>>

====
